---- MODULE Spec2Model ----
(***************************************************************************)
(* Model of src/main.py: the POST /api/calculate handler                   *)
(* (calculate_calories), the pydantic validation of its request body       *)
(* (FoodItem / CalculationRequest) and the GET /test diagnostic handler    *)
(* (test_database).                                                        *)
(*                                                                         *)
(* Numbers.  Gram and calorie inputs are integers.  An unrounded calorie   *)
(* value is the exact rational num/den; a value rounded to 2 decimals is   *)
(* an integer number of hundredths.  Python's round(x, 2) rounds the       *)
(* stored double half-to-even; on the input sets below every unrounded     *)
(* value is either no tie at the third decimal or a tie that a double      *)
(* holds exactly (k + 1/8, 3/8, 5/8, 7/8), so Round2 on the exact rational *)
(* gives the result of round() on the double (see FloatFaithful).          *)
(* An Optional[float] field is the empty set (None) or a singleton.        *)
(***************************************************************************)
EXTENDS Integers, Sequences, FiniteSets, TLC

\* ---------------------------------------------------------------- bounds
MaxItems == 2
NumSlots == 2
MaxCollections == 11

Slots == 1..NumSlots

\* ------------------------------------------------------ input value sets
Names == {"Apple", "Bar"}
AmountValues == {1, 3}
Per100Values == {0, 50}
PerServingValues == {1}
ServingSizeValues == {0, 8}
Negative == 0 - 1

Opt(S) == {{}} \cup {{v} : v \in S}

\* Items whose fields all satisfy the declared constraints.
NonNegativeItems ==
    [name : Names,
     amount_g : AmountValues,
     calories_per_100g : Opt(Per100Values),
     calories_per_serving : Opt(PerServingValues),
     serving_size_g : Opt(ServingSizeValues)]

\* One item per numeric field, with that field negative.
NegativeItems ==
    { [name |-> "Bar", amount_g |-> Negative, calories_per_100g |-> {50},
       calories_per_serving |-> {}, serving_size_g |-> {}],
      [name |-> "Bar", amount_g |-> 1, calories_per_100g |-> {Negative},
       calories_per_serving |-> {}, serving_size_g |-> {}],
      [name |-> "Bar", amount_g |-> 1, calories_per_100g |-> {},
       calories_per_serving |-> {Negative}, serving_size_g |-> {8}],
      [name |-> "Bar", amount_g |-> 1, calories_per_100g |-> {},
       calories_per_serving |-> {1}, serving_size_g |-> {Negative}] }

FoodItems == NonNegativeItems \cup NegativeItems

\* The items of the concurrent specification: a per-serving tie (0.125)
\* and a per-100g item (1.50) that also carries per-serving fields.
SmallItems ==
    { [name |-> "Bar", amount_g |-> 1, calories_per_100g |-> {},
       calories_per_serving |-> {1}, serving_size_g |-> {8}],
      [name |-> "Apple", amount_g |-> 3, calories_per_100g |-> {50},
       calories_per_serving |-> {1}, serving_size_g |-> {0}] }

\* The items of the fair specification: every combination of present,
\* absent, zero and positive optional fields, and the negative items.
CoreItems == { i \in FoodItems : i.name = "Bar" /\ i.amount_g # 3 }

SeqsUpTo(S, n) == UNION { [1..k -> S] : k \in 0..n }

Payloads(S) == SeqsUpTo(S, MaxItems)

\* ------------------------------------------------------------ arithmetic
Val(o) == CHOOSE v \in o : TRUE

\* Rounding with ties away from zero instead of ties to even.
Round2HalfUp(num, den) ==
    LET n == 100 * num
        q == n \div den
        r == n % den
    IN  IF 2 * r >= den THEN q + 1 ELSE q

\* round(num/den, 2) in hundredths, den > 0: nearest, ties to the even
\* hundredth (Python 3 round()).
Round2(num, den) ==
    LET n == 100 * num
        q == n \div den
        r == n % den
    IN  IF 2 * r > den THEN q + 1
        ELSE IF 2 * r < den THEN q
        ELSE IF q % 2 = 0 THEN q ELSE q + 1

NoteText == "Missing calorie data; counted as 0"

\* ---------------------------------------------------------- validation
\* Field(..., ge=0) / Field(None, ge=0)
GeZero(v) == v >= 0

OptGeZero(o) == \A v \in o : GeZero(v)

\* serving_size_g declared without ge=0.
ValidFoodItemNoServing(item) ==
    /\ GeZero(item.amount_g)
    /\ OptGeZero(item.calories_per_100g)
    /\ OptGeZero(item.calories_per_serving)

ValidFoodItem(item) ==
    /\ GeZero(item.amount_g)
    /\ OptGeZero(item.calories_per_100g)
    /\ OptGeZero(item.calories_per_serving)
    /\ OptGeZero(item.serving_size_g)

ValidRequest(p) == \A k \in 1..Len(p) : ValidFoodItem(p[k])

\* ------------------------------------------------- the body of the loop
\* Lines 63-80: the method chosen for one item and its unrounded calories
\* num/den.  raised is TRUE when the division of line 75 divides by zero.
UsesPer100g(item) == item.calories_per_100g # {}

\* The test of line 73 left out.
UsesPerServingAnySize(item) ==
    /\ item.calories_per_serving # {}
    /\ item.serving_size_g # {}

UsesPerServing(item) ==
    /\ item.calories_per_serving # {}
    /\ item.serving_size_g # {}
    /\ Val(item.serving_size_g) > 0

Per100g(item) ==
    [num |-> item.amount_g * Val(item.calories_per_100g), den |-> 100,
     method |-> "per_100g", note |-> {}, raised |-> FALSE]

PerServing(item) ==
    IF Val(item.serving_size_g) = 0
    THEN [num |-> 0, den |-> 1, method |-> "unknown", note |-> {},
          raised |-> TRUE]
    ELSE [num |-> item.amount_g * Val(item.calories_per_serving),
          den |-> Val(item.serving_size_g),
          method |-> "per_serving", note |-> {}, raised |-> FALSE]

\* The else branch without the assignment of line 80.
InsufficientUnknown(item) ==
    [num |-> 0, den |-> 1, method |-> "unknown",
     note |-> {NoteText}, raised |-> FALSE]

Insufficient(item) ==
    [num |-> 0, den |-> 1, method |-> "insufficient_data",
     note |-> {NoteText}, raised |-> FALSE]

\* The per-serving data tried before the per-100g data.
BranchServingFirst(item) ==
    IF UsesPerServing(item) THEN PerServing(item)
    ELSE IF UsesPer100g(item) THEN Per100g(item)
    ELSE Insufficient(item)

Branch(item) ==
    IF UsesPer100g(item) THEN Per100g(item)
    ELSE IF UsesPerServing(item) THEN PerServing(item)
    ELSE Insufficient(item)

\* The note attached whenever the calories are 0.
MakeResultNoteOnZero(item) ==
    LET b == Branch(item)
    IN  [name |-> item.name,
         amount_g |-> item.amount_g,
         calories |-> Round2(b.num, b.den),
         method |-> b.method,
         note |-> IF Round2(b.num, b.den) = 0 THEN {NoteText} ELSE b.note]

\* Lines 82-92: the ItemResult of one item.
MakeResult(item) ==
    LET b == Branch(item)
    IN  [name |-> item.name,
         amount_g |-> item.amount_g,
         calories |-> Round2(b.num, b.den),
         method |-> b.method,
         note |-> b.note]

\* The result inserted at the head of the list.
AppendResultFront(res, x) == <<x>> \o res

\* Line 85: results.append(...)
AppendResult(res, x) == Append(res, x)

\* total = calories instead of total += calories.
AddToTotalAssign(tot, r, c) == [tot EXCEPT ![r] = c]

\* One accumulator shared by all requests.
AddToTotalShared(tot, r, c) == [s \in Slots |-> tot[s] + c]

\* Line 83: total += calories, on the total of the request in slot r.
AddToTotal(tot, r, c) == [tot EXCEPT ![r] = @ + c]

\* Line 95: the response of a request that ran to the end of its loop.
MakeResponse(tot, res) ==
    [status |-> 200,
     body |-> [total_calories |-> Round2(tot, 100), items |-> res]]

\* The framework's answer to a body that fails validation.
ValidationError == [status |-> 422, body |-> [detail |-> "validation_error"]]

NoResponse == [status |-> 0, body |-> [detail |-> "none"]]


\* ------------------------------------------------- the GET /test handler
\* The state of the optional database module, as `from database import db`
\* and the calls on db observe it:
\*   module  "absent" (the import raises ImportError), "broken" (the import
\*           raises another exception) or "ok";
\*   db      "None" or "object";
\*   name    how db.name behaves: "missing", "present" or "raises";
\*   list    how db.list_collection_names() behaves: "ok" or "raises";
\*   ncoll   the number of collections it returns;
\*   exc     the class of the exception raised, msgLen the length of str(e).
MsgLens == {0, 10, 50, 60}
ExcKinds == {"RuntimeError", "ConnectionFailure"}
ImportKinds == {"ImportError", "ModuleNotFoundError"}

DbEnvs ==
    [module : {"absent"}, db : {"None"}, name : {"missing"}, list : {"ok"},
     ncoll : {0}, exc : ImportKinds, msgLen : {10}]
    \cup
    [module : {"broken"}, db : {"None"}, name : {"missing"}, list : {"ok"},
     ncoll : {0}, exc : ExcKinds, msgLen : MsgLens]
    \cup
    [module : {"ok"}, db : {"None"}, name : {"missing"}, list : {"ok"},
     ncoll : {0}, exc : {"RuntimeError"}, msgLen : {0}]
    \cup
    [module : {"ok"}, db : {"object"}, name : {"raises"}, list : {"ok"},
     ncoll : {0}, exc : ExcKinds, msgLen : MsgLens]
    \cup
    [module : {"ok"}, db : {"object"}, name : {"missing", "present"},
     list : {"raises"}, ncoll : {0}, exc : ExcKinds, msgLen : MsgLens]
    \cup
    [module : {"ok"}, db : {"object"}, name : {"missing", "present"},
     list : {"ok"}, ncoll : 0..MaxCollections, exc : {"RuntimeError"},
     msgLen : {0}]

EnvVars == {"DATABASE_URL", "DATABASE_NAME"}

\* The exception classes and their base classes; every class that is
\* raised here derives from Exception.
IsSubclass(kind, base) ==
    \/ kind = base
    \/ kind = "ModuleNotFoundError" /\ base = "ImportError"
    \/ base = "Exception"

\* x[:n] on the length of a string or list
ShownCollections == 10
ShownMessage == 50

Prefix(len, n) == IF len < n THEN len ELSE n

\* A status text and the length of the exception text appended to it.
Status(text, len) == [text |-> text, msg |-> len]

\* Lines 101-108
InitialTestResponse ==
    [backend |-> "Running",
     database |-> Status("Not Available", 0),
     database_url |-> "None",
     database_name |-> "None",
     connection_status |-> "Not Connected",
     collections |-> 0]

\* Lines 121-126: the inner try and its handler.
ListCollections(resp, env) ==
    IF env.list = "raises"
    THEN IF IsSubclass(env.exc, "Exception")
         THEN [exc |-> {},
               resp |-> [resp EXCEPT !.database =
                           Status("Connected but Error", Prefix(env.msgLen, ShownMessage))]]
         ELSE [exc |-> {env.exc}, resp |-> resp]
    ELSE [exc |-> {},
          resp |-> [resp EXCEPT
                      !.collections = Prefix(env.ncoll, ShownCollections),
                      !.database = Status("Connected & Working", 0)]]

\* Lines 112-128: the body of the outer try; exc is the exception that
\* leaves it, if any.
TryBody(resp, env) ==
    IF env.module # "ok" THEN [exc |-> {env.exc}, resp |-> resp]
    ELSE IF env.db = "None"
    THEN [exc |-> {},
          resp |-> [resp EXCEPT !.database = Status("Available but not initialized", 0)]]
    ELSE LET r1 == [resp EXCEPT !.database = Status("Available", 0),
                                !.database_url = "Configured"]
         IN  IF env.name = "raises" THEN [exc |-> {env.exc}, resp |-> r1]
             ELSE ListCollections(
                      [r1 EXCEPT
                         !.database_name = IF env.name = "present" THEN "db.name"
                                           ELSE "Connected",
                         !.connection_status = "Connected"],
                      env)

\* Lines 130-133: the handlers of the outer try.
\* The outer try with its `except ImportError` only.
OuterCatchesImportOnly(kind) == IsSubclass(kind, "ImportError")

OuterCatches(kind) == IsSubclass(kind, "ImportError") \/ IsSubclass(kind, "Exception")

OuterHandlers(t, env) ==
    IF t.exc = {} THEN t
    ELSE IF ~OuterCatches(Val(t.exc)) THEN t
    ELSE IF IsSubclass(Val(t.exc), "ImportError")
    THEN [exc |-> {},
          resp |-> [t.resp EXCEPT !.database = Status("Database module not found", 0)]]
    ELSE [exc |-> {},
          resp |-> [t.resp EXCEPT !.database =
                      Status("Error", Prefix(env.msgLen, ShownMessage))]]

\* Lines 136-138
CheckEnviron(resp, environment) ==
    [resp EXCEPT
       !.database_url = IF "DATABASE_URL" \in environment THEN "Set" ELSE "Not Set",
       !.database_name = IF "DATABASE_NAME" \in environment THEN "Set" ELSE "Not Set"]

\* Lines 99-140: the whole handler; exc is the exception it propagates, if
\* any, and resp the response it returns otherwise.
RunTestDatabase(env, environment) ==
    LET t == OuterHandlers(TryBody(InitialTestResponse, env), env)
    IN  IF t.exc # {} THEN [exc |-> t.exc, resp |-> InitialTestResponse]
        ELSE [exc |-> {}, resp |-> CheckEnviron(t.resp, environment)]

\* ----------------------------------------------------------------- state
VARIABLES pc, payload, idx, results, total, response,
          dbEnv, environ, testPc, testResp

calcVars == <<pc, payload, idx, results, total, response>>
testVars == <<dbEnv, environ, testPc, testResp>>
vars == <<pc, payload, idx, results, total, response,
          dbEnv, environ, testPc, testResp>>

InitialDbEnv ==
    [module |-> "absent", db |-> "None", name |-> "missing", list |-> "ok",
     ncoll |-> 0, exc |-> "ModuleNotFoundError", msgLen |-> 10]

Init ==
    /\ pc = [r \in Slots |-> "idle"]
    /\ payload = [r \in Slots |-> <<>>]
    /\ idx = [r \in Slots |-> 0]
    /\ results = [r \in Slots |-> <<>>]
    /\ total = [r \in Slots |-> 0]
    /\ response = [r \in Slots |-> NoResponse]
    /\ dbEnv = InitialDbEnv
    /\ environ = {}
    /\ testPc = "idle"
    /\ testResp = InitialTestResponse

\* A request body arrives in slot r and is validated (lines 18-31, 57-58);
\* a valid one enters the handler, which sets up its locals (lines 59-60).
Receive(r, P) ==
    /\ pc[r] = "idle"
    /\ \E p \in P :
        /\ payload' = [payload EXCEPT ![r] = p]
        /\ IF ValidRequest(p)
           THEN /\ pc' = [pc EXCEPT ![r] = "loop"]
                /\ idx' = [idx EXCEPT ![r] = 1]
                /\ results' = [results EXCEPT ![r] = <<>>]
                /\ total' = [total EXCEPT ![r] = 0]
                /\ UNCHANGED response
           ELSE /\ pc' = [pc EXCEPT ![r] = "rejected"]
                /\ response' = [response EXCEPT ![r] = ValidationError]
                /\ UNCHANGED <<idx, results, total>>
    /\ UNCHANGED testVars

\* One iteration of the loop of lines 62-93.
Step(r) ==
    /\ pc[r] = "loop"
    /\ idx[r] <= Len(payload[r])
    /\ LET item == payload[r][idx[r]]
       IN  IF Branch(item).raised
           THEN /\ pc' = [pc EXCEPT ![r] = "error"]
                /\ response' = [response EXCEPT ![r] =
                       [status |-> 500, body |-> [detail |-> "ZeroDivisionError"]]]
                /\ UNCHANGED <<idx, results, total>>
           ELSE /\ total' = AddToTotal(total, r, MakeResult(item).calories)
                /\ results' = [results EXCEPT ![r] = AppendResult(@, MakeResult(item))]
                /\ idx' = [idx EXCEPT ![r] = @ + 1]
                /\ UNCHANGED <<pc, response>>
    /\ UNCHANGED <<payload, testVars>>

\* Line 95: the loop is over, the response is built and returned.
Return(r) ==
    /\ pc[r] = "loop"
    /\ idx[r] > Len(payload[r])
    /\ response' = [response EXCEPT ![r] = MakeResponse(total[r], results[r])]
    /\ pc' = [pc EXCEPT ![r] = "done"]
    /\ UNCHANGED <<payload, idx, results, total, testVars>>

\* The response has been sent; the request's entities are discarded.
Finish(r) ==
    /\ pc[r] \in {"done", "rejected", "error"}
    /\ pc' = [pc EXCEPT ![r] = "idle"]
    /\ payload' = [payload EXCEPT ![r] = <<>>]
    /\ idx' = [idx EXCEPT ![r] = 0]
    /\ results' = [results EXCEPT ![r] = <<>>]
    /\ total' = [total EXCEPT ![r] = 0]
    /\ response' = [response EXCEPT ![r] = NoResponse]
    /\ UNCHANGED testVars

\* One request at a time, over the full item set.
Next ==
    \/ Receive(1, Payloads(FoodItems))
    \/ Step(1)
    \/ Return(1)
    \/ Finish(1)

Spec == Init /\ [][Next]_vars

\* Requests in every slot, interleaved at the granularity of a loop
\* iteration.
NextConc ==
    \E r \in Slots :
        \/ Receive(r, Payloads(SmallItems))
        \/ Step(r)
        \/ Return(r)
        \/ Finish(r)

SpecConc == Init /\ [][NextConc]_vars

\* One request at a time; the thread that runs the handler keeps running.
NextCore ==
    \/ Receive(1, Payloads(CoreItems))
    \/ Step(1)
    \/ Return(1)
    \/ Finish(1)

SpecFair ==
    Init /\ [][NextCore]_vars /\ WF_vars(Step(1)) /\ WF_vars(Return(1))

\* The database module is installed, removed, connected or broken, and
\* the environment variables are set or unset, between two probes.
ChangeDb ==
    /\ testPc = "idle"
    /\ dbEnv' \in DbEnvs
    /\ UNCHANGED <<environ, testPc, testResp, calcVars>>

ChangeEnviron ==
    /\ testPc = "idle"
    /\ environ' \in SUBSET EnvVars
    /\ UNCHANGED <<dbEnv, testPc, testResp, calcVars>>

\* GET /test is served.
TestDatabase ==
    /\ testPc = "idle"
    /\ LET out == RunTestDatabase(dbEnv, environ)
       IN  /\ testPc' = IF out.exc = {} THEN "returned" ELSE "raised"
           /\ testResp' = out.resp
    /\ UNCHANGED <<dbEnv, environ, calcVars>>

TestFinish ==
    /\ testPc # "idle"
    /\ testPc' = "idle"
    /\ testResp' = InitialTestResponse
    /\ UNCHANGED <<dbEnv, environ, calcVars>>

NextTest == ChangeDb \/ ChangeEnviron \/ TestDatabase \/ TestFinish

SpecTest == Init /\ [][NextTest]_vars

\* ======================================================== properties
\* q hundredths is num/den rounded to 2 decimals: a nearest hundredth, and
\* the even one when num/den lies halfway between two.
Abs(x) == IF x < 0 THEN 0 - x ELSE x

IsRounded(q, num, den) ==
    /\ 2 * Abs(100 * num - q * den) <= den
    /\ (2 * Abs(100 * num - q * den) = den => q % 2 = 0)

Returned(r) == response[r].status = 200

ReturnedItems(r) == IF Returned(r) THEN response[r].body.items ELSE <<>>

\* Every double the handler rounds is either no tie at the third decimal
\* or a multiple of 1/8, which a double holds exactly.
FloatFaithful ==
    \A item \in NonNegativeItems :
        LET b == Branch(item)
        IN  2 * ((100 * b.num) % b.den) = b.den => (8 * b.num) % b.den = 0

\* C1: an item with calories_per_100g present (0 included) is computed as
\* round(amount_g * calories_per_100g / 100, 2) with method per_100g,
\* whatever its per-serving fields hold.
C1_Per100g ==
    \A r \in Slots : \A k \in 1..Len(ReturnedItems(r)) :
        LET item == payload[r][k]
            res == ReturnedItems(r)[k]
        IN  item.calories_per_100g # {} =>
                /\ res.method = "per_100g"
                /\ IsRounded(res.calories,
                             item.amount_g * Val(item.calories_per_100g), 100)

C1_Witness ==
    \E r \in Slots : \E k \in 1..Len(ReturnedItems(r)) :
        /\ payload[r][k].calories_per_100g = {50}
        /\ payload[r][k].calories_per_serving = {1}
        /\ payload[r][k].serving_size_g = {8}
        /\ payload[r][k].amount_g = 3
        /\ ReturnedItems(r)[k].calories = 150
        /\ ReturnedItems(r)[k].method = "per_100g"

\* C2: an item with calories_per_100g absent, calories_per_serving present
\* and serving_size_g present and positive is computed as
\* round((amount_g / serving_size_g) * calories_per_serving, 2) with method
\* per_serving.
C2_PerServing ==
    \A r \in Slots : \A k \in 1..Len(ReturnedItems(r)) :
        LET item == payload[r][k]
            res == ReturnedItems(r)[k]
        IN  (/\ item.calories_per_100g = {}
             /\ item.calories_per_serving # {}
             /\ item.serving_size_g # {}
             /\ Val(item.serving_size_g) > 0) =>
                /\ res.method = "per_serving"
                /\ IsRounded(res.calories,
                             item.amount_g * Val(item.calories_per_serving),
                             Val(item.serving_size_g))

\* 1 g of an 8 g serving of 1 kcal: 0.125 is rounded to 0.12.
C2_Witness ==
    \E r \in Slots : \E k \in 1..Len(ReturnedItems(r)) :
        /\ payload[r][k].calories_per_100g = {}
        /\ payload[r][k].calories_per_serving = {1}
        /\ payload[r][k].serving_size_g = {8}
        /\ payload[r][k].amount_g = 1
        /\ ReturnedItems(r)[k].calories = 12
        /\ ReturnedItems(r)[k].method = "per_serving"

\* C3: an item with calories_per_100g absent and calories_per_serving
\* absent, serving_size_g absent or serving_size_g = 0 gets calories 0,
\* method insufficient_data and a non-empty note; no request ends in a
\* division by zero.
C3_Insufficient ==
    \A r \in Slots :
        /\ pc[r] # "error"
        /\ response[r].status # 500
        /\ \A k \in 1..Len(ReturnedItems(r)) :
            LET item == payload[r][k]
                res == ReturnedItems(r)[k]
            IN  (/\ item.calories_per_100g = {}
                 /\ \/ item.calories_per_serving = {}
                    \/ item.serving_size_g = {}
                    \/ item.serving_size_g = {0}) =>
                    /\ res.calories = 0
                    /\ res.method = "insufficient_data"
                    /\ \E n \in res.note : n # ""

C3_Witness ==
    \E r \in Slots : \E k \in 1..Len(ReturnedItems(r)) :
        /\ payload[r][k].calories_per_100g = {}
        /\ payload[r][k].calories_per_serving = {1}
        /\ payload[r][k].serving_size_g = {0}
        /\ ReturnedItems(r)[k].method = "insufficient_data"
        /\ ReturnedItems(r)[k].calories = 0

\* The sum of the calories of a list of ItemResults, in hundredths.
RECURSIVE SumCalories(_)
SumCalories(res) ==
    IF res = <<>> THEN 0
    ELSE res[Len(res)].calories + SumCalories(SubSeq(res, 1, Len(res) - 1))

\* The sum of the unrounded calories of a list of items, as a fraction.
RECURSIVE SumUnrounded(_)
SumUnrounded(p) ==
    IF p = <<>> THEN [num |-> 0, den |-> 1]
    ELSE LET b == Branch(p[Len(p)])
             s == SumUnrounded(SubSeq(p, 1, Len(p) - 1))
         IN  [num |-> b.num * s.den + s.num * b.den, den |-> b.den * s.den]

\* C4: total_calories is the rounding to 2 decimals of the sum of the
\* returned, already rounded, item calories; it is 0 for an empty list.
C4_TotalOfRounded ==
    \A r \in Slots :
        Returned(r) =>
            /\ IsRounded(response[r].body.total_calories,
                         SumCalories(response[r].body.items), 100)
            /\ (payload[r] = <<>> => response[r].body.total_calories = 0)

\* A response whose total differs from the rounding of the unrounded sum:
\* 0.125 + 0.125 gives 0.12 + 0.12 = 0.24, not round(0.25, 2).
C4_Witness ==
    \E r \in Slots :
        /\ Returned(r)
        /\ Len(payload[r]) = 2
        /\ response[r].body.total_calories = 24
        /\ Round2(SumUnrounded(payload[r]).num, SumUnrounded(payload[r]).den) = 25

\* C5: the response has one ItemResult per input item, in input order,
\* each with the name and amount_g of its item.
C5_SameLengthAndOrder ==
    \A r \in Slots :
        Returned(r) =>
            /\ Len(response[r].body.items) = Len(payload[r])
            /\ \A k \in 1..Len(payload[r]) :
                /\ response[r].body.items[k].name = payload[r][k].name
                /\ response[r].body.items[k].amount_g = payload[r][k].amount_g

\* Two items of the same name and different amounts.
C5_Witness ==
    \E r \in Slots :
        /\ Returned(r)
        /\ Len(payload[r]) = 2
        /\ payload[r][1].name = payload[r][2].name
        /\ payload[r][1].amount_g = 3
        /\ payload[r][2].amount_g = 1
        /\ response[r].body.items[1].amount_g = 3
        /\ response[r].body.items[2].amount_g = 1

\* Some numeric field of some item of p is negative.
HasNegativeField(p) ==
    \E k \in 1..Len(p) :
        \/ p[k].amount_g < 0
        \/ \E v \in p[k].calories_per_100g : v < 0
        \/ \E v \in p[k].calories_per_serving : v < 0
        \/ \E v \in p[k].serving_size_g : v < 0

\* C6: a request with a negative amount_g, calories_per_100g,
\* calories_per_serving or serving_size_g in any item is rejected with a
\* validation error; the loop never runs on it and it gets no ItemResult
\* and no total.
C6_NegativeRejected ==
    \A r \in Slots :
        HasNegativeField(payload[r]) =>
            /\ pc[r] = "rejected"
            /\ results[r] = <<>>
            /\ response[r] = ValidationError

\* A rejected request with a valid first item and a negative second one.
C6_Witness ==
    \E r \in Slots :
        /\ pc[r] = "rejected"
        /\ Len(payload[r]) = 2
        /\ payload[r][1] \in NonNegativeItems
        /\ payload[r][2].serving_size_g = {Negative}
        /\ response[r].status = 422

Methods == {"per_100g", "per_serving", "insufficient_data"}

C7_Safe ==
    \A r \in Slots :
        /\ pc[r] # "error"
        /\ ~HasNegativeField(payload[r]) /\ pc[r] # "idle" =>
               pc[r] \in {"loop", "done"}
        /\ pc[r] = "done" =>
               /\ Returned(r)
               /\ Len(response[r].body.items) = Len(payload[r])
        /\ \A k \in 1..Len(results[r]) :
               /\ results[r][k].calories >= 0
               /\ results[r][k].method \in Methods
        /\ \A k \in 1..Len(ReturnedItems(r)) :
               /\ ReturnedItems(r)[k].calories >= 0
               /\ ReturnedItems(r)[k].method \in Methods

\* C7: a request whose items satisfy the non-negativity constraints never
\* ends in an error; its handler terminates and returns a response; every
\* ItemResult has calories >= 0 and a method among per_100g, per_serving
\* and insufficient_data.
C7_Total == []C7_Safe /\ ((pc[1] = "loop") ~> (pc[1] = "done"))

\* A returned response with an insufficient_data item followed by a
\* per_serving item.
C7_Witness ==
    \E r \in Slots :
        /\ pc[r] = "done"
        /\ Returned(r)
        /\ Len(payload[r]) = 2
        /\ response[r].body.items[1].method = "insufficient_data"
        /\ response[r].body.items[2].method = "per_serving"

\* The status text the probe is to report for a state of the database
\* module.
ExpectedStatus(env) ==
    IF env.module = "absent" THEN "Database module not found"
    ELSE IF env.module = "broken" THEN "Error"
    ELSE IF env.db = "None" THEN "Available but not initialized"
    ELSE IF env.name = "raises" THEN "Error"
    ELSE IF env.list = "raises" THEN "Connected but Error"
    ELSE "Connected & Working"

\* C8: GET /test never propagates an exception: with the database module
\* absent, db None, the listing of the collections failing, or all of it
\* working, it returns a response whose backend field reports running and
\* whose database field tells these cases apart.
C8_TestNeverRaises ==
    /\ testPc # "raised"
    /\ testPc = "returned" =>
           /\ testResp.backend = "Running"
           /\ testResp.database.text = ExpectedStatus(dbEnv)

\* The listing of the collections failed with a 60 character message.
C8_Witness ==
    /\ testPc = "returned"
    /\ dbEnv.module = "ok"
    /\ dbEnv.db = "object"
    /\ dbEnv.list = "raises"
    /\ dbEnv.msgLen = 60
    /\ testResp.database = Status("Connected but Error", 50)
    /\ testResp.connection_status = "Connected"

\* C9: a returned ItemResult has a note exactly when its method is
\* insufficient_data; per_100g and per_serving items have none, also when
\* their calories are 0.
C9_NoteIffInsufficient ==
    \A r \in Slots : \A k \in 1..Len(ReturnedItems(r)) :
        ReturnedItems(r)[k].note # {} <=>
            ReturnedItems(r)[k].method = "insufficient_data"

C9_Witness ==
    \E r \in Slots : \E k \in 1..Len(ReturnedItems(r)) :
        /\ ReturnedItems(r)[k].method = "per_100g"
        /\ ReturnedItems(r)[k].calories = 0
        /\ ReturnedItems(r)[k].note = {}

\* The response to p of a handler that serves p alone, item after item.
RECURSIVE SoloResults(_)
SoloResults(p) ==
    IF p = <<>> THEN <<>>
    ELSE Append(SoloResults(SubSeq(p, 1, Len(p) - 1)), MakeResult(p[Len(p)]))

SoloResponse(p) ==
    [status |-> 200,
     body |-> [total_calories |-> Round2(SumCalories(SoloResults(p)), 100),
               items |-> SoloResults(p)]]

\* C10: under any interleaving of concurrent and successive requests, a
\* request's response is the one it would get alone, the running total
\* and result list of a request in its loop are those of its own items
\* so far, and an ItemResult is a function of its own item only.
C10_Isolated ==
    \A r \in Slots :
        /\ Returned(r) => response[r] = SoloResponse(payload[r])
        /\ pc[r] = "loop" =>
               /\ results[r] = SoloResults(SubSeq(payload[r], 1, idx[r] - 1))
               /\ total[r] = SumCalories(results[r])

\* Two requests in the middle of their loops at the same time, each with
\* a non-zero running total.
C10_Witness ==
    \E r1, r2 \in Slots :
        /\ r1 # r2
        /\ pc[r1] = "loop" /\ idx[r1] = 2 /\ Len(payload[r1]) = 2
        /\ pc[r2] = "loop" /\ idx[r2] = 2 /\ Len(payload[r2]) = 2
        /\ total[r1] = 12
        /\ total[r2] = 150

====
